---- MODULE Spec2Model ----
(***************************************************************************)
(* Model of static/js/app.js, the browser side of the trip weather         *)
(* planner.                                                                *)
(*                                                                         *)
(* The file holds two script sections:                                     *)
(*   section A, lines 1-368   (state: current, lastMarker)                 *)
(*   section B, lines 370-983 (state: selected, marker, lastResult,        *)
(*                             lastFactor)                                 *)
(* Both declare `let map` at top level and both define showError,          *)
(* reverseGeocode, renderConditions, renderSuggestions and refreshTrips,   *)
(* so they cannot run in one scope: each is modelled as a page of its own, *)
(* whose handlers call the functions of their own section.  SpecA is the   *)
(* page of section A, SpecB the page of section B; both write the same     *)
(* page elements (`dom`) and read the same form controls (`form`).         *)
(*                                                                         *)
(* An async handler is split at its awaits: the part up to the first fetch *)
(* is one action, and the continuation that runs when the response arrives *)
(* is another.  Requests in flight are the bag `inflight`; they complete   *)
(* in any order, with any response the backend can give.                   *)
(***************************************************************************)
EXTENDS Integers, Sequences, FiniteSets, Bags, TLC

VARIABLES
    current,      \* section A: { lat, lon, name, tz }            (line 55)
    lastMarker,   \* section A: position of the marker or NoPos   (line 54)
    selected,     \* section B: { lat, lon, name }                (line 374)
    marker,       \* section B: position of the marker or NoPos   (line 373)
    lastResult,   \* section B: last plan result or NoResult      (line 375)
    lastFactor,   \* section B: factor shown in the modal         (line 376)
    dom,          \* the page elements the handlers write
    form,         \* the form controls the handlers read
    inflight,     \* requests sent and not yet answered
    call          \* a pure function under test: its input and its result

vars == <<current, lastMarker, selected, marker, lastResult, lastFactor,
          dom, form, inflight, call>>

appVars == <<current, lastMarker, selected, marker, lastResult, lastFactor,
             dom, form, inflight>>

(***************************************************************************)
(* JavaScript numbers.  A value is a record [t, n, d]:                     *)
(*   t = "num"  the finite number n/d (d > 0), exact                       *)
(*   t = "big"  a finite double of the order of Number.MAX_VALUE, sign n:  *)
(*              adding or subtracting an ordinary number leaves it         *)
(*              unchanged, big - (-big) overflows to Infinity              *)
(*   t = "inf"  Infinity with sign n                                       *)
(*   t = "nan"  NaN                                                        *)
(*   t = "null" null / undefined / any value that is not a number          *)
(***************************************************************************)
Num(k)    == [t |-> "num", n |-> k, d |-> 1]
Rat(a, b) == [t |-> "num", n |-> a, d |-> b]
Big(s)    == [t |-> "big", n |-> s, d |-> 1]
Inf(s)    == [t |-> "inf", n |-> s, d |-> 1]
NaN       == [t |-> "nan", n |-> 0, d |-> 1]
Null      == [t |-> "null", n |-> 0, d |-> 1]

\* const isNum = (x) => typeof x === "number" && Number.isFinite(x);
isNum(x) == x.t \in {"num", "big"}

\* x <= y for two numbers that are not NaN
JsLe(x, y) ==
    LET rank(v) == CASE v.t = "inf" -> 3 * v.n
                     [] v.t = "big" -> 2 * v.n
                     [] OTHER       -> 0
    IN  IF rank(x) # rank(y) THEN rank(x) < rank(y)
        ELSE IF x.t = "num" /\ y.t = "num" THEN x.n * y.d <= y.n * x.d
        ELSE TRUE

\* Math.max(x, y) and Math.min(x, y): NaN if an argument is NaN
JsMax(x, y) == IF x.t = "nan" \/ y.t = "nan" THEN NaN
               ELSE IF JsLe(x, y) THEN y ELSE x
JsMin(x, y) == IF x.t = "nan" \/ y.t = "nan" THEN NaN
               ELSE IF JsLe(x, y) THEN x ELSE y

\* x - y for finite x, y
JsSub(x, y) ==
    CASE x.t = "num" /\ y.t = "num" -> Rat(x.n * y.d - y.n * x.d, x.d * y.d)
      [] x.t = "big" /\ y.t = "num" -> x
      [] x.t = "num" /\ y.t = "big" -> Big(-y.n)
      [] x.t = "big" /\ y.t = "big" -> IF x.n = y.n THEN Num(0) ELSE Inf(x.n)
      [] OTHER -> NaN

\* x + y for a number x that is not NaN and a finite ordinary y
JsAdd(x, y) ==
    CASE x.t = "num" -> Rat(x.n * y.d + y.n * x.d, x.d * y.d)
      [] x.t \in {"big", "inf"} -> x
      [] OTHER -> NaN

\* Math.abs(x)
JsAbs(x) ==
    CASE x.t = "num" -> Rat(IF x.n < 0 THEN -x.n ELSE x.n, x.d)
      [] x.t = "big" -> Big(1)
      [] x.t = "inf" -> Inf(1)
      [] OTHER -> NaN

\* x / y for x >= 0 and y > 0
JsDiv(x, y) ==
    CASE x.t = "nan" \/ y.t = "nan" -> NaN
      [] x.t = "inf" -> IF y.t = "inf" THEN NaN ELSE Inf(1)
      [] x.t = "big" -> IF y.t = "inf" THEN Num(0)
                        ELSE IF y.t = "big" THEN Num(1)
                        ELSE IF y.n < y.d THEN Inf(1) ELSE Big(1)
      [] OTHER       -> IF y.t \in {"inf", "big"} THEN Num(0)
                        ELSE Rat(x.n * y.d, x.d * y.n)

\* the remainder operator %, whose sign is the sign of the dividend
JsRem(a, m) == IF a >= 0 THEN a % m ELSE -((-a) % m)

(***************************************************************************)
(* Section A: coordinate helper (lines 25-29).  Coordinates are whole      *)
(* degrees.                                                                *)
(***************************************************************************)
normalizeCoords(lat, lon) ==
    LET la == IF lat > 90 THEN 90 ELSE IF lat < -90 THEN -90 ELSE lat
        lo == JsRem(lon + 180, 360) - 180
    IN  [lat |-> la, lon |-> lo]

(***************************************************************************)
(* Reading numeric form fields.  Number(text) on the texts a field of the  *)
(* model can hold: the empty string and a blank string convert to 0, a     *)
(* decimal literal to its value, anything else to NaN.                     *)
(***************************************************************************)
FieldTexts == {"", " ", "0", "5", "-3", "abc", "Infinity"}

JsNumber(text) ==
    CASE text = ""         -> Num(0)
      [] text = " "        -> Num(0)
      [] text = "0"        -> Num(0)
      [] text = "5"        -> Num(5)
      [] text = "-3"       -> Num(-3)
      [] text = "Infinity" -> Inf(1)
      [] OTHER             -> NaN

\* section A, line 119: function num(id), on the text of the field
num(text) ==
    IF text = "" THEN Null
    ELSE LET n == JsNumber(text) IN IF isNum(n) THEN n ELSE Null

\* section B, lines 539-542
numOrNull(v) ==
    LET n == JsNumber(v) IN IF isNum(n) THEN n ELSE Null

ThresholdFields ==
    {"pprobMax", "pamtMax", "tMin", "tMax", "hMin", "hMax", "wMax", "wMin"}

\* section B, lines 513-538: the thresholds of readPrefs, by form field
readPrefs(fields) == [f \in ThresholdFields |-> numOrNull(fields[f])]

(***************************************************************************)
(* Section B: flip-risk estimator (lines 401-452).                         *)
(***************************************************************************)
\* const clamp = (v, lo, hi) => Math.max(lo, Math.min(hi, v));
clamp(v, lo, hi) == JsMax(lo, JsMin(hi, v))

\* lines 404-411; Null stands for the null the function returns
nearestBoundaryDistance(val, lo, hi) ==
    IF ~isNum(val) THEN Null
    ELSE IF isNum(lo) /\ isNum(hi)
         THEN JsMin(JsAbs(JsSub(val, lo)), JsAbs(JsSub(val, hi)))
    ELSE IF isNum(lo) THEN JsAbs(JsSub(val, lo))
    ELSE IF isNum(hi) THEN JsAbs(JsSub(val, hi))
    ELSE Null

\* lines 425-431: the two climatology tweaks, for pct = clim.pct_of_normal
\* (Null when there is no climatology for the factor)
tweakUp(pct) ==
    isNum(pct) /\ (~JsLe(pct, Num(130)) \/ ~JsLe(Num(70), pct))
\* tweakDown with a plausible slip: the lower end of "near normal" is missing
tweakDown_noLowerEnd(pct) ==
    isNum(pct) /\ JsLe(pct, Num(110))

tweakDown(pct) ==
    isNum(pct) /\ JsLe(pct, Num(110)) /\ JsLe(Num(90), pct)

\* lines 446-448: the climatology nudges applied to the probability p
nudged(p, pct) ==
    LET p1 == IF tweakUp(pct) THEN clamp(JsAdd(p, Rat(1, 10)), Num(0), Num(1)) ELSE p
    IN  IF tweakDown(pct) THEN clamp(JsSub(p1, Rat(1, 10)), Num(0), Num(1)) ELSE p1

\* flipAt with a plausible slip: an hour next to a non-finite value is
\* given up as unknown too
flipAt_needsNeighbours(arr, i, th, pct) ==
    LET v    == arr[i]
        dist == nearestBoundaryDistance(v, th.min, th.max)
        okPrev == i = 1 \/ isNum(arr[i - 1])
        okNext == i = Len(arr) \/ isNum(arr[i + 1])
    IN  IF ~isNum(v) \/ ~okPrev \/ ~okNext THEN Null
        ELSE IF dist = Null THEN Null
        ELSE Num(0)

\* lines 433-450: the body of the loop, for index i of arr
flipAt(arr, i, th, pct) ==
    LET v    == arr[i]
        prev == IF i > 1 /\ isNum(arr[i - 1]) THEN arr[i - 1] ELSE Null
        next == IF i + 1 <= Len(arr) /\ isNum(arr[i + 1]) THEN arr[i + 1] ELSE Null
        s1   == IF isNum(prev) THEN JsMax(Num(0), JsAbs(JsSub(v, prev))) ELSE Num(0)
        slope == IF isNum(next) THEN JsMax(s1, JsAbs(JsSub(next, v))) ELSE s1
        dist == nearestBoundaryDistance(v, th.min, th.max)
        eps  == Rat(1, 1000000)
        p0   == clamp(JsDiv(slope, JsAdd(dist, eps)), Num(0), Num(1))
    IN  IF ~isNum(v) THEN Null
        ELSE IF dist = Null THEN Null
        ELSE nudged(p0, pct)

\* lines 418-452
fallbackFlipSeries(values, th, pct) ==
    [i \in 1..Len(values) |-> flipAt(values, i, th, pct)]

(***************************************************************************)
(* Section B: the flip column of the factor modal (lines 828-870) and the  *)
(* row of the uncertainty panel (lines 734-754).                           *)
(***************************************************************************)
FactorKeys == {"precip_prob", "precip_amt", "temp", "humidity", "wind"}

ThresholdNames ==
    {"temp_min", "temp_max", "humidity_min", "humidity_max", "wind_min", "wind_max",
     "precip_amt_max", "precip_prob_max"}

\* lines 832-836: the bounds handed to the fallback, from prefs.thresholds
thUI(key, th) ==
    [min |-> CASE key = "temp"     -> th["temp_min"]
               [] key = "humidity" -> th["humidity_min"]
               [] key = "wind"     -> th["wind_min"]
               [] OTHER            -> Null,
     max |-> CASE key = "temp"       -> th["temp_max"]
               [] key = "humidity"   -> th["humidity_max"]
               [] key = "wind"       -> th["wind_max"]
               [] key = "precip_amt" -> th["precip_amt_max"]
               [] OTHER              -> Null]

\* Math.round(x * 100) of a number x >= 0, as the percent texts show it
percent(x) == (200 * x.n + x.d) \div (2 * x.d)

\* a text of a flip cell or of an uncertainty row: a percentage or a dash
Pct(k) == [shown |-> "pct", v |-> k]
Dash   == [shown |-> "dash", v |-> 0]

\* line 869: isNum(fp) ? `${Math.round(fp*100)}%` : "-"
flipCellText(fp) == IF fp.t = "num" THEN Pct(percent(fp)) ELSE Dash

\* line 752: u.flip_prob == null ? "-" : `${Math.round(u.flip_prob*100)}%`
uncertaintyText(flip_prob) == IF flip_prob = Null THEN Dash ELSE Pct(percent(flip_prob))

\* lines 828-840: the series of the modal, the server's when it holds a
\* finite number for the key, else the fallback's
modalFlipSeries(key, serverFlip, values, th, pct) ==
    IF \E i \in DOMAIN serverFlip : isNum(serverFlip[i])
    THEN [by |-> "server", series |-> serverFlip]
    ELSE [by |-> "fallback", series |-> fallbackFlipSeries(values, thUI(key, th), pct)]

(***************************************************************************)
(* Section B: colour of a condition box (lines 459-464, 633-646).          *)
(* An hour's map is a function from the keys it holds to "true", "false"   *)
(* or "null" (any value that is neither true nor false).                   *)
(***************************************************************************)
colorFromBoolMix(allTrue, anyFalse, anyUnknown) ==
    IF anyFalse THEN "bad" ELSE IF allTrue THEN "good" ELSE "warn"

factorColor(key, perHour) ==
    IF Len(perHour) = 0 THEN "warn"
    ELSE LET has(i)     == key \in DOMAIN perHour[i]
             allTrue    == \A i \in 1..Len(perHour) : has(i) => perHour[i][key] = "true"
             anyFalse   == \E i \in 1..Len(perHour) : has(i) /\ perHour[i][key] = "false"
             anyUnknown == \E i \in 1..Len(perHour) : ~has(i)
         IN  colorFromBoolMix(allTrue, anyFalse, anyUnknown)

(***************************************************************************)
(* Values of the page model.                                               *)
(***************************************************************************)
MaxResults  == 2     \* distinct plan results the backend returns
MaxInflight == 2     \* requests in flight at one time
MaxTrips    == 1     \* saved trips the backend lists

NoCoord  == 999      \* null in a lat or lon slot
NoResult == [id |-> 0, conds |-> FALSE, sugg |-> FALSE]

\* a plan result: its trip id, whether its conditions list is non-empty, and
\* whether it holds unideal spans or alternative windows; the results of the
\* model hold both lists or neither
Results == {x \in [id : 1..MaxResults, conds : BOOLEAN, sugg : BOOLEAN] : x.conds = x.sugg}

\* the raw positions (lat, lon) of the map clicks of the page specifications
ClickPoints == {<<91, 190>>}
Names       == {"P"}
Factors     == {"temp", "wind"}

NoCall == [fn |-> "none", in |-> <<>>, out |-> <<>>, done |-> FALSE]

\* display of the panels in the page markup, before any handler ran
InitialDisplay == FALSE

(***************************************************************************)
(* The state of the variables and of the page elements when a script      *)
(* starts (lines 54-55, 374-376).                                          *)
(***************************************************************************)
AppInit ==
    /\ current    = [lat |-> NoCoord, lon |-> NoCoord, name |-> "null", tz |-> "null"]
    /\ lastMarker = [set |-> FALSE, lat |-> NoCoord, lon |-> NoCoord, popup |-> <<>>]
    /\ selected   = [lat |-> NoCoord, lon |-> NoCoord, name |-> "Unknown"]
    /\ marker     = [set |-> FALSE, lat |-> NoCoord, lon |-> NoCoord, popup |-> <<>>]
    /\ lastResult = NoResult
    /\ lastFactor = "null"
    /\ dom = [ errorShown   |-> InitialDisplay,
               errorText    |-> <<>>,
               planResult   |-> [k |-> "empty", r |-> NoResult, s |-> ""],
               condPanel    |-> InitialDisplay,
               condRows     |-> [by |-> "none", r |-> NoResult],
               suggestPanel |-> InitialDisplay,
               suggest      |-> [by |-> "none", r |-> NoResult],
               probPanel    |-> InitialDisplay,
               probRows     |-> [by |-> "none", r |-> NoResult],
               modal        |-> InitialDisplay,
               modalBody    |-> [r |-> NoResult, factor |-> "null"],
               tripsList    |-> [k |-> "empty", by |-> "none", trips |-> {}],
               placeInfo    |-> <<>>,
               tzText       |-> "UTC" ]


(***************************************************************************)
(* Responses of the backend.  net = FALSE is a transport or parse failure  *)
(* (fetch rejects, or the body is not JSON); an absent text field is "".   *)
(***************************************************************************)
GeoResponses ==
    [net : {FALSE}, ok : {FALSE}, name : {""}]
      \cup [net : {TRUE}, ok : {FALSE}, name : {""}]
      \cup [net : {TRUE}, ok : {TRUE}, name : Names \cup {""}]

HourlyResponses ==
    [net : {FALSE}, ok : {FALSE}, tz : {""}]
      \cup [net : {TRUE}, ok : {FALSE}, tz : {""}]
      \cup [net : {TRUE}, ok : {TRUE}, tz : {"", "TZ"}]

PlanResponses ==
    [net : {FALSE}, ok : {FALSE}, no_data : {FALSE}, error : {""}, message : {""},
     res : {NoResult}]
      \cup [net : {TRUE}, ok : {FALSE}, no_data : BOOLEAN, error : {"", "X"},
            message : {"", "Y"}, res : {NoResult}]
      \cup [net : {TRUE}, ok : {TRUE}, no_data : {TRUE}, error : {""},
            message : {"", "Y"}, res : {NoResult}]
      \cup [net : {TRUE}, ok : {TRUE}, no_data : {FALSE}, error : {""},
            message : {""}, res : Results]

TripsResponses ==
    [net : {FALSE}, ok : {FALSE}, trips : {{}}]
      \cup [net : {TRUE}, ok : {FALSE}, trips : {{}}]
      \cup [net : {TRUE}, ok : {TRUE}, trips : SUBSET (1..MaxTrips)]

TripResponses ==
    [net : {FALSE}, ok : {FALSE}, trip : {NoResult}]
      \cup [net : {TRUE}, ok : {FALSE}, trip : {NoResult}]
      \cup [net : {TRUE}, ok : {TRUE}, trip : Results]

DeleteResponses ==
    [net : {FALSE}, ok : {FALSE}] \cup [net : {TRUE}, ok : BOOLEAN]

(***************************************************************************)
(* Helpers on the page.                                                    *)
(***************************************************************************)
\* a request in flight: the handler that awaits it and the locals it holds
\* (the body of a request is not kept: no handler reads it back)
Req(h) == [h |-> h, lat |-> NoCoord, lon |-> NoCoord, name |-> "", id |-> 0]
ReqAt(h, lat, lon) == [Req(h) EXCEPT !.lat = lat, !.lon = lon]

Sent(q, x)        == q (+) SetToBag({x})
Without(q, x)     == q (-) SetToBag({x})
Replaced(q, x, y) == (q (-) SetToBag({x})) (+) SetToBag({y})
Pending(h)        == {x \in BagToSet(inflight) : x.h = h}
HasRoom           == BagCardinality(inflight) < MaxInflight

\* section A, lines 5-11: errorPanel.textContent = "Error: " + msg
showErrorA(d, msg) == [d EXCEPT !.errorShown = TRUE, !.errorText = <<"Error: ">> \o msg]
\* section B, lines 615-619
showErrorB(d, msg) == [d EXCEPT !.errorShown = TRUE, !.errorText = msg]
\* hideError with a plausible slip: it empties the summary slot too
hideError_clearsSummary(d) ==
    [d EXCEPT !.errorShown = FALSE, !.errorText = <<>>,
              !.planResult = [k |-> "empty", r |-> NoResult, s |-> ""]]
\* section B, lines 620-624
hideError(d) == [d EXCEPT !.errorShown = FALSE, !.errorText = <<>>]

\* the modal overlay (lines 760, 886) covers the page while it is shown: the
\* controls under it take no click
PageClickable == ~dom.modal

(***************************************************************************)
(* Section A: map click (lines 101-114), reverseGeocode (58-68),           *)
(* setTimezoneBadge (76-89).                                               *)
(***************************************************************************)
ClickA ==
    \E p \in ClickPoints :
        LET norm == normalizeCoords(p[1], p[2]) IN
        /\ PageClickable
        /\ HasRoom
        /\ lastMarker' = [set |-> TRUE, lat |-> p[1], lon |-> p[2], popup |-> <<>>]
        /\ inflight' = Sent(inflight, ReqAt("A.geo", norm.lat, norm.lon))
        /\ UNCHANGED <<current, selected, marker, lastResult, lastFactor, dom, form, call>>

\* the reverse-geocode answer arrives: the name is settled, the timezone
\* request leaves
GeoA ==
    \E t \in BagToSet(inflight), r \in GeoResponses :
        LET name == IF r.net /\ r.ok /\ r.name # "" THEN r.name ELSE "Unknown"
        IN
        /\ t.h = "A.geo"
        /\ dom' = IF ~r.net THEN showErrorA(dom, <<"Reverse geocode failed: ", "net">>)
                  ELSE dom
        /\ inflight' = Replaced(inflight, t,
                          [ReqAt("A.tz", t.lat, t.lon) EXCEPT !.name = name])
        /\ UNCHANGED <<current, lastMarker, selected, marker, lastResult, lastFactor,
                       form, call>>

\* the hourly answer arrives: timezone badge, then current, popup, place card
TzA ==
    \E t \in BagToSet(inflight), r \in HourlyResponses :
        LET good == r.net /\ r.ok
            tz  == IF good /\ r.tz # "" THEN r.tz ELSE "UTC"
            d1  == IF good THEN dom
                   ELSE showErrorA(dom, <<"Could not fetch timezone; using UTC. ">>)
        IN
        /\ t.h = "A.tz"
        /\ current' = [lat |-> t.lat, lon |-> t.lon, name |-> t.name, tz |-> tz]
        /\ lastMarker' = [lastMarker EXCEPT !.popup = <<t.name, t.lat, t.lon>>]
        /\ dom' = [d1 EXCEPT !.tzText = tz, !.placeInfo = <<t.name, t.lat, t.lon>>]
        /\ inflight' = Without(inflight, t)
        /\ UNCHANGED <<selected, marker, lastResult, lastFactor, form, call>>

(***************************************************************************)
(* Section B: map click (lines 481-486), placeMarker (488-492),            *)
(* reverseGeocode (493-510).                                               *)
(***************************************************************************)
\* lines 481-486, 488-492: a click at the raw position p
ClickBAt(p) ==
    /\ PageClickable
    /\ HasRoom
    /\ selected' = [selected EXCEPT !.lat = p[1], !.lon = p[2]]
    /\ marker' = [set |-> TRUE, lat |-> p[1], lon |-> p[2], popup |-> <<"Unknown">>]
    /\ inflight' = Sent(inflight, ReqAt("B.geo", p[1], p[2]))
    /\ UNCHANGED <<current, lastMarker, lastResult, lastFactor, dom, form, call>>

ClickB == \E p \in ClickPoints : ClickBAt(p)

\* lines 493-510: the answer r of the reverse-geocode request t arrives
GeoBAnswer(t, r) ==
    LET name == IF r.name # "" THEN r.name ELSE "undefined"
    IN
    /\ IF r.net /\ r.ok
       THEN /\ selected' = [selected EXCEPT !.name = name]
            /\ marker' = [marker EXCEPT !.popup = <<name, t.lat, t.lon>>]
            /\ dom' = [dom EXCEPT !.placeInfo = <<name, t.lat, t.lon>>]
       ELSE UNCHANGED <<selected, marker, dom>>
    /\ inflight' = Without(inflight, t)
    /\ UNCHANGED <<current, lastMarker, lastResult, lastFactor, form, call>>

GeoBGot(r) == \E t \in Pending("B.geo") : GeoBAnswer(t, r)

GeoB == \E r \in GeoResponses : GeoBGot(r)

(***************************************************************************)
(* Section A: renderers (lines 152-256) and Run button (lines 259-327).    *)
(***************************************************************************)
\* lines 152-172, called with res.conditions
renderConditionsA(d, res) ==
    IF ~res.conds
    THEN [d EXCEPT !.condPanel = FALSE, !.condRows = [by |-> "none", r |-> NoResult]]
    ELSE [d EXCEPT !.condPanel = TRUE, !.condRows = [by |-> "A", r |-> res]]

\* lines 174-221
renderSuggestionsA(d, res) ==
    IF ~res.sugg
    THEN [d EXCEPT !.suggestPanel = FALSE, !.suggest = [by |-> "none", r |-> NoResult]]
    ELSE [d EXCEPT !.suggestPanel = TRUE, !.suggest = [by |-> "A", r |-> res]]

\* lines 223-256
renderReport(d, res) ==
    renderSuggestionsA(
        renderConditionsA(
            [d EXCEPT !.planResult = [k |-> "reportA", r |-> res, s |-> ""]], res), res)

PlanText(k, s) == [k |-> k, r |-> NoResult, s |-> s]

\* lines 259-301: the click, up to the fetch
RunA ==
    /\ PageClickable
    /\ IF current.lat = NoCoord \/ current.lon = NoCoord
       THEN /\ dom' = [dom EXCEPT !.planResult =
                          PlanText("bad", "Click the map to choose a location first.")]
            /\ UNCHANGED inflight
       ELSE IF form.startLocal = "" \/ form.endLocal = ""
       THEN /\ dom' = [dom EXCEPT !.planResult =
                          PlanText("bad", "Provide a start and end time.")]
            /\ UNCHANGED inflight
       ELSE /\ HasRoom
            /\ dom' = [dom EXCEPT !.planResult = PlanText("text", "Evaluating")]
            /\ inflight' = Sent(inflight, Req("A.plan"))
    /\ UNCHANGED <<current, lastMarker, selected, marker, lastResult, lastFactor,
                   form, call>>

\* lines 302-326: the page after the answer r of /api/plan_trip
planDomA(d, r) ==
    IF ~r.net
    THEN [showErrorA(d, <<"Plan error: ", "net">>)
            EXCEPT !.planResult = PlanText("bad", "net")]
    ELSE IF ~r.ok
    THEN LET msg == IF r.error # "" THEN r.error ELSE "Plan failed" IN
         [showErrorA(d, <<msg>>)
            EXCEPT !.planResult = PlanText("bad", msg),
                   !.condPanel = FALSE,
                   !.suggestPanel = FALSE]
    ELSE IF r.no_data
    THEN [d EXCEPT !.planResult = PlanText("bad", IF r.message # "" THEN r.message
                                                  ELSE "undefined"),
                   !.condPanel = FALSE,
                   !.suggestPanel = FALSE]
    ELSE renderReport(d, r.res)

\* line 322: refreshTrips() is awaited after a rendered report only
planRefreshesA(r) == r.net /\ r.ok /\ ~r.no_data

\* lines 302-326: the answer r of /api/plan_trip arrives
PlanAGot(r) ==
    \E t \in Pending("A.plan") :
        /\ dom' = planDomA(dom, r)
        /\ inflight' = IF planRefreshesA(r) THEN Replaced(inflight, t, Req("A.trips"))
                       ELSE Without(inflight, t)
        /\ UNCHANGED <<current, lastMarker, selected, marker, lastResult, lastFactor,
                       form, call>>

PlanA == \E r \in PlanResponses : PlanAGot(r)

(***************************************************************************)
(* Section B: renderers (lines 627-757) and Run button (lines 545-598).    *)
(***************************************************************************)
\* lines 627-682
renderConditionsB(d, j) ==
    [d EXCEPT !.condPanel = TRUE, !.condRows = [by |-> "B", r |-> j]]
\* lines 684-728
renderSuggestionsB(d, j) ==
    [d EXCEPT !.suggestPanel = TRUE, !.suggest = [by |-> "B", r |-> j]]
\* lines 730-757
renderUncertainty(d, j) ==
    [d EXCEPT !.probPanel = TRUE, !.probRows = [by |-> "B", r |-> j]]

\* the summary and the three panels, as both the Run handler (lines 585-593)
\* and openSavedTrip (lines 952-959) write them
renderResultB(d, j) ==
    renderUncertainty(
        renderSuggestionsB(
            renderConditionsB(
                [d EXCEPT !.planResult = [k |-> "summaryB", r |-> j, s |-> ""]], j), j), j)

\* lines 545-567: the click, up to the fetch
RunB ==
    /\ PageClickable
    /\ IF selected.lat = NoCoord \/ selected.lon = NoCoord
       THEN /\ dom' = showErrorB(dom, <<"Click on the map to choose a location.">>)
            /\ UNCHANGED inflight
       ELSE /\ HasRoom
            /\ dom' = hideError(dom)
            /\ inflight' = Sent(inflight, Req("B.plan"))
    /\ UNCHANGED <<current, lastMarker, selected, marker, lastResult, lastFactor,
                   form, call>>

\* lines 569-593: the page after the answer r of /api/plan_trip
planDomB(d, r) ==
    IF ~r.net THEN showErrorB(d, <<"Plan error: ", "net">>)
    ELSE IF ~r.ok
    THEN showErrorB(d, <<IF r.message # "" THEN r.message ELSE "Plan error.">>)
    ELSE IF r.no_data
    THEN [showErrorB(d, <<IF r.message # "" THEN r.message
                          ELSE "No data available for this window.">>)
            EXCEPT !.planResult = PlanText("empty", ""),
                   !.condPanel = FALSE,
                   !.suggestPanel = FALSE,
                   !.probPanel = FALSE]
    ELSE renderResultB(d, r.res)

\* planResultB with a plausible slip: a result already in the slot is kept
planResultB_firstWins(prev, r) ==
    IF ~r.net \/ ~r.ok THEN prev
    ELSE IF r.no_data THEN NoResult
    ELSE IF prev # NoResult THEN prev ELSE r.res

\* planResultB with a plausible slip: the no-data branch leaves the slot alone
planResultB_keepsOnNoData(prev, r) ==
    IF ~r.net \/ ~r.ok \/ r.no_data THEN prev ELSE r.res

\* lines 579 and 583: lastResult after the answer r
planResultB(prev, r) ==
    IF ~r.net \/ ~r.ok THEN prev
    ELSE IF r.no_data THEN NoResult
    ELSE r.res

\* planRefreshesB with a plausible slip: refresh after every ok answer, the
\* no-data answer included
planRefreshesB_onAnyOk(r) == r.net /\ r.ok

\* line 594: refreshTrips() is awaited after a rendered result only
planRefreshesB(r) == r.net /\ r.ok /\ ~r.no_data

\* lines 568-597: the answer r of /api/plan_trip arrives
PlanBGot(r) ==
    \E t \in Pending("B.plan") :
        /\ dom' = planDomB(dom, r)
        /\ lastResult' = planResultB(lastResult, r)
        /\ inflight' = IF planRefreshesB(r) THEN Replaced(inflight, t, Req("B.trips"))
                       ELSE Without(inflight, t)
        /\ UNCHANGED <<current, lastMarker, selected, marker, lastFactor, form, call>>

PlanB == \E r \in PlanResponses : PlanBGot(r)

(***************************************************************************)
(* Saved trips: refreshTrips of section A (lines 330-356) and of section B *)
(* (lines 900-943), openSavedTrip (lines 945-963).                         *)
(***************************************************************************)
TripsList(k, by, trips) == [k |-> k, by |-> by, trips |-> trips]

\* the Refresh button: one listener of each section (lines 356 and 943)
RefreshA ==
    /\ PageClickable
    /\ HasRoom
    /\ inflight' = Sent(inflight, Req("A.trips"))
    /\ UNCHANGED <<current, lastMarker, selected, marker, lastResult, lastFactor,
                   dom, form, call>>

RefreshB ==
    /\ PageClickable
    /\ HasRoom
    /\ inflight' = Sent(inflight, Req("B.trips"))
    /\ UNCHANGED <<current, lastMarker, selected, marker, lastResult, lastFactor,
                   dom, form, call>>

TripsA ==
    \E t \in BagToSet(inflight), r \in TripsResponses :
        /\ t.h = "A.trips"
        /\ dom' = IF ~r.net
                  THEN [showErrorA(dom, <<"Load trips error: ", "net">>)
                          EXCEPT !.tripsList = TripsList("Error loading trips.", "A", {})]
                  ELSE IF ~r.ok
                  THEN [dom EXCEPT !.tripsList = TripsList("Failed to load.", "A", {})]
                  ELSE IF r.trips = {}
                  THEN [dom EXCEPT !.tripsList = TripsList("No trips yet.", "A", {})]
                  ELSE [dom EXCEPT !.tripsList = TripsList("list", "A", r.trips)]
        /\ inflight' = Without(inflight, t)
        /\ UNCHANGED <<current, lastMarker, selected, marker, lastResult, lastFactor,
                       form, call>>

TripsB ==
    \E t \in BagToSet(inflight), r \in TripsResponses :
        /\ t.h = "B.trips"
        /\ dom' = IF ~r.net \/ ~r.ok
                  THEN [dom EXCEPT !.tripsList = TripsList("Error loading trips.", "B", {})]
                  ELSE IF r.trips = {}
                  THEN [dom EXCEPT !.tripsList = TripsList("No trips yet.", "B", {})]
                  ELSE [dom EXCEPT !.tripsList = TripsList("list", "B", r.trips)]
        /\ inflight' = Without(inflight, t)
        /\ UNCHANGED <<current, lastMarker, selected, marker, lastResult, lastFactor,
                       form, call>>

\* the View button of a trip of the list section B rendered (line 923)
ViewTrip ==
    \E id \in 1..MaxTrips :
        /\ PageClickable
        /\ dom.tripsList.k = "list" /\ dom.tripsList.by = "B" /\ id \in dom.tripsList.trips
        /\ HasRoom
        /\ inflight' = Sent(inflight, [Req("B.trip") EXCEPT !.id = id])
        /\ UNCHANGED <<current, lastMarker, selected, marker, lastResult, lastFactor,
                       dom, form, call>>

\* lines 948-962: the answer r of /api/trip/{id} arrives
TripBGot(r) ==
    \E t \in Pending("B.trip") :
        /\ IF ~r.net
           THEN /\ dom' = showErrorB(dom, <<"Error loading saved trip.">>)
                /\ UNCHANGED lastResult
           ELSE IF ~r.ok
           THEN /\ dom' = showErrorB(dom, <<"Trip not found.">>)
                /\ UNCHANGED lastResult
           ELSE /\ lastResult' = r.trip
                /\ dom' = renderResultB(dom, r.trip)
        /\ inflight' = Without(inflight, t)
        /\ UNCHANGED <<current, lastMarker, selected, marker, lastFactor, form, call>>

TripB == \E r \in TripResponses : TripBGot(r)

(***************************************************************************)
(* Delete of a saved trip: window.deleteTrip of section A (lines 357-365)  *)
(* and the Delete button of section B (lines 926-934).                     *)
(***************************************************************************)
\* the Delete button of a trip of the list section A rendered (line 347)
DeleteA ==
    \E id \in 1..MaxTrips :
        /\ PageClickable
        /\ dom.tripsList.k = "list" /\ dom.tripsList.by = "A" /\ id \in dom.tripsList.trips
        /\ HasRoom
        /\ inflight' = Sent(inflight, [Req("A.del") EXCEPT !.id = id])
        /\ UNCHANGED <<current, lastMarker, selected, marker, lastResult, lastFactor,
                       dom, form, call>>

\* line 363: refreshTrips() is called after an answer with ok only
deleteRefreshesA(r) == r.net /\ r.ok

\* lines 359-364: the answer r of /api/trips/delete arrives
DelAGot(r) ==
    \E t \in Pending("A.del") :
        /\ dom' = IF ~r.net THEN showErrorA(dom, <<"Delete failed: ", "net">>)
                  ELSE IF ~r.ok THEN showErrorA(dom, <<"Delete failed">>)
                  ELSE dom
        /\ inflight' = IF deleteRefreshesA(r) THEN Replaced(inflight, t, Req("A.trips"))
                       ELSE Without(inflight, t)
        /\ UNCHANGED <<current, lastMarker, selected, marker, lastResult, lastFactor,
                       form, call>>

DelA == \E r \in DeleteResponses : DelAGot(r)

\* the Delete button of a trip of the list section B rendered (line 930)
DeleteB ==
    \E id \in 1..MaxTrips :
        /\ PageClickable
        /\ dom.tripsList.k = "list" /\ dom.tripsList.by = "B" /\ id \in dom.tripsList.trips
        /\ HasRoom
        /\ inflight' = Sent(inflight, [Req("B.del") EXCEPT !.id = id])
        /\ UNCHANGED <<current, lastMarker, selected, marker, lastResult, lastFactor,
                       dom, form, call>>

\* deleteRefreshesB with a plausible slip: refresh after a confirmed delete only
deleteRefreshesB_onOkOnly(r) == r.net /\ r.ok

\* lines 931-932: the awaited fetch rejects on a transport failure and the
\* handler ends there; any answer, whatever its status, is followed by
\* refreshTrips()
deleteRefreshesB(r) == r.net

\* lines 931-932: the answer r of /api/trips/delete arrives
DelBGot(r) ==
    \E t \in Pending("B.del") :
        /\ inflight' = IF deleteRefreshesB(r) THEN Replaced(inflight, t, Req("B.trips"))
                       ELSE Without(inflight, t)
        /\ UNCHANGED <<current, lastMarker, selected, marker, lastResult, lastFactor,
                       dom, form, call>>

DelB == \E r \in DeleteResponses : DelBGot(r)

(***************************************************************************)
(* Section B: the factor modal (lines 760-887).                            *)
(***************************************************************************)
\* a click on a condition row section B rendered (line 679)
OpenFactorModal ==
    \E key \in Factors :
        /\ PageClickable
        /\ dom.condPanel /\ dom.condRows.by = "B" /\ dom.condRows.r.conds
        /\ IF lastResult = NoResult
           THEN UNCHANGED <<lastFactor, dom>>
           ELSE /\ lastFactor' = key
                /\ dom' = [dom EXCEPT !.modal = TRUE,
                                      !.modalBody = [r |-> lastResult, factor |-> key]]
        /\ UNCHANGED <<current, lastMarker, selected, marker, lastResult, form,
                       inflight, call>>

\* line 761
CloseModal ==
    /\ dom.modal
    /\ dom' = [dom EXCEPT !.modal = FALSE]
    /\ UNCHANGED <<current, lastMarker, selected, marker, lastResult, lastFactor,
                   form, inflight, call>>

\* lines 762-766: the export the CSV link of the modal opens when clicked
\* (window.open), or NoExport when the handler returns early
NoExport == [trip_id |-> 0, factor |-> "null"]
csvExport ==
    IF lastResult = NoResult \/ lastFactor = "null" THEN NoExport
    ELSE [trip_id |-> lastResult.id, factor |-> lastFactor]

\* the user types in the start and end fields
EditTimes ==
    \E s \in {"", "T1"}, e \in {"", "T2"} :
        /\ PageClickable
        /\ form' = [startLocal |-> s, endLocal |-> e]
        /\ form' # form
        /\ UNCHANGED <<current, lastMarker, selected, marker, lastResult, lastFactor,
                       dom, inflight, call>>

\* section A after the script ran: refreshTrips() of line 368 is in flight;
\* the time fields are as the markup leaves them, empty
AppInitA ==
    /\ AppInit
    /\ form = [startLocal |-> "", endLocal |-> ""]
    /\ inflight = SetToBag({Req("A.trips")})

\* section B after DOMContentLoaded (lines 966-978): the time fields hold the
\* default window and refreshTrips() is in flight
AppInitB ==
    /\ AppInit
    /\ form = [startLocal |-> "T1", endLocal |-> "T2"]
    /\ inflight = SetToBag({Req("B.trips")})

InitA == AppInitA /\ call = NoCall
InitB == AppInitB /\ call = NoCall

NextA ==
    \/ ClickA \/ GeoA \/ TzA
    \/ RunA \/ PlanA
    \/ RefreshA \/ TripsA
    \/ DeleteA \/ DelA
    \/ EditTimes

NextB ==
    \/ ClickB \/ GeoB
    \/ RunB \/ PlanB
    \/ RefreshB \/ TripsB
    \/ ViewTrip \/ TripB
    \/ DeleteB \/ DelB
    \/ OpenFactorModal \/ CloseModal
    \/ EditTimes

SpecA == InitA /\ [][NextA]_vars
SpecB == InitB /\ [][NextB]_vars

(***************************************************************************)
(* The map of section B alone, with clicks at three places and a backend   *)
(* that answers every reverse-geocode request with the name of the place   *)
(* asked for: the clicks overlap, the answers arrive in any order.         *)
(***************************************************************************)
RacePoints == {<<10, 20>>, <<30, 40>>, <<50, 60>>}
PlaceName(lat, lon) ==
    CASE <<lat, lon>> = <<10, 20>> -> "P1"
      [] <<lat, lon>> = <<30, 40>> -> "P2"
      [] OTHER                     -> "P3"

MapClickB == \E p \in RacePoints : ClickBAt(p)

MapGeoB ==
    \E t \in Pending("B.geo") :
        GeoBAnswer(t, [net |-> TRUE, ok |-> TRUE, name |-> PlaceName(t.lat, t.lon)])

NextMapB == MapClickB \/ MapGeoB \/ TripsB

SpecMapB == InitB /\ [][NextMapB]_vars

(***************************************************************************)
(* Specifications of the pure functions: Init draws the input, the action  *)
(* applies the function.                                                   *)
(***************************************************************************)
MaxHours == 3      \* hours in hourly_factor_ok
MaxLen   == 3      \* hours in a value series
LonSpan  == 400    \* longitudes are drawn from -LonSpan..LonSpan

SeqsUpTo(S, n) == UNION {[1..k -> S] : k \in 0..n}

\* ---- factorColor ----
HourMaps == UNION {[D -> {"true", "false", "null"}] : D \in SUBSET Factors}

InitColor ==
    /\ AppInitB
    /\ call \in [fn : {"factorColor"},
                 in : Factors \X SeqsUpTo(HourMaps, MaxHours),
                 out : {""}, done : {FALSE}]

ApplyColor ==
    /\ call.fn = "factorColor" /\ ~call.done
    /\ call' = [call EXCEPT !.out = factorColor(call.in[1], call.in[2]), !.done = TRUE]
    /\ UNCHANGED appVars

SpecColor == InitColor /\ [][ApplyColor]_vars

\* ---- normalizeCoords ----
InitNorm ==
    /\ AppInitB
    /\ call \in [fn : {"normalizeCoords"},
                 in : {-91, -90, 0, 90, 91} \X (-LonSpan..LonSpan),
                 out : {[lat |-> 0, lon |-> 0]}, done : {FALSE}]

ApplyNorm ==
    /\ call.fn = "normalizeCoords" /\ ~call.done
    /\ call' = [call EXCEPT !.out = normalizeCoords(call.in[1], call.in[2]), !.done = TRUE]
    /\ UNCHANGED appVars

SpecNorm == InitNorm /\ [][ApplyNorm]_vars

\* ---- readPrefs ----
PrefTexts == {"", "5", "abc"}

InitPrefs ==
    /\ AppInitB
    /\ call \in [fn : {"readPrefs"},
                 in : [ThresholdFields -> PrefTexts],
                 out : {[f \in ThresholdFields |-> Null]}, done : {FALSE}]

ApplyPrefs ==
    /\ call.fn = "readPrefs" /\ ~call.done
    /\ call' = [call EXCEPT !.out = readPrefs(call.in), !.done = TRUE]
    /\ UNCHANGED appVars

SpecPrefs == InitPrefs /\ [][ApplyPrefs]_vars

\* ---- fallbackFlipSeries ----
SeriesValues == {Null, Num(0), Num(2), Num(5), Big(1), Big(-1)}
BoundValues  == {Null, Num(0), Num(3), Big(-1)}
PctValues    == {Null, Num(50), Num(100), Num(120), Num(140)}

InitFlip ==
    /\ AppInitB
    /\ call \in [fn : {"fallbackFlipSeries"},
                 in : SeqsUpTo(SeriesValues, MaxLen)
                        \X [min : BoundValues, max : BoundValues] \X PctValues,
                 out : {<<>>}, done : {FALSE}]

ApplyFlip ==
    /\ call.fn = "fallbackFlipSeries" /\ ~call.done
    /\ call' = [call EXCEPT
                  !.out = fallbackFlipSeries(call.in[1], call.in[2], call.in[3]),
                  !.done = TRUE]
    /\ UNCHANGED appVars

SpecFlip == InitFlip /\ [][ApplyFlip]_vars

\* ---- the climatology nudges ----
MaxPct == 200      \* pct_of_normal is drawn from 0..MaxPct

NudgePcts  == {Null} \cup {Num(k) : k \in 0..MaxPct}
NudgeProbs == {Num(0), Rat(1, 2), Num(1)}

InitNudge ==
    /\ AppInitB
    /\ call \in [fn : {"nudged"}, in : NudgeProbs \X NudgePcts,
                 out : {Null}, done : {FALSE}]

ApplyNudge ==
    /\ call.fn = "nudged" /\ ~call.done
    /\ call' = [call EXCEPT !.out = nudged(call.in[1], call.in[2]), !.done = TRUE]
    /\ UNCHANGED appVars

SpecNudge == InitNudge /\ [][ApplyNudge]_vars

\* ---- the flip series of the factor modal and the uncertainty row ----
MaxModalHours == 2     \* hours in hourly_flip and in the value series

ModalFlips  == {Null, Rat(1, 2)}
ModalValues == {Null, Num(2)}
\* prefs.thresholds: none set, all set, only the upper or only the lower bounds
Thresholds ==
    {[n \in ThresholdNames |-> IF n \in D THEN Num(3) ELSE Null] :
        D \in {{}, ThresholdNames,
               {"temp_max", "humidity_max", "wind_max", "precip_amt_max", "precip_prob_max"},
               {"temp_min", "humidity_min", "wind_min"}}}

InitModal ==
    /\ AppInitB
    /\ call \in [fn : {"openFactorModal"},
                 in : [key : FactorKeys,
                       hourly_flip : SeqsUpTo(ModalFlips, MaxModalHours),
                       values : SeqsUpTo(ModalValues, MaxModalHours),
                       thresholds : Thresholds,
                       pct : {Null, Num(100)},
                       flip_prob : {Null, Rat(1, 2)}],
                 out : {<<>>}, done : {FALSE}]

\* the result is rendered (uncertainty row of the factor) and the modal of
\* the factor is opened
ApplyModal ==
    /\ call.fn = "openFactorModal" /\ ~call.done
    /\ LET in == call.in
           m  == modalFlipSeries(in.key, in.hourly_flip, in.values, in.thresholds, in.pct)
       IN  call' = [call EXCEPT
                      !.out = [by     |-> m.by,
                               series |-> m.series,
                               cells  |-> [i \in DOMAIN m.series |-> flipCellText(m.series[i])],
                               panel  |-> uncertaintyText(in.flip_prob)],
                      !.done = TRUE]
    /\ UNCHANGED appVars

SpecModal == InitModal /\ [][ApplyModal]_vars

(***************************************************************************)
(* Claims about the pure functions.                                        *)
(***************************************************************************)

\* C1: the colour of a condition box is "bad" if any hour's value for the key
\* is explicitly false; otherwise "good" only if every hour's value is
\* explicitly true; otherwise "warn" (key missing from every hour, or missing
\* from some hours and true in the others).
C1_ColorRule ==
    (call.fn = "factorColor" /\ call.done) =>
        LET key == call.in[1]
            ph  == call.in[2]
            hrs == 1..Len(ph)
            isVal(i, x) == key \in DOMAIN ph[i] /\ ph[i][key] = x
        IN  call.out =
              IF \E i \in hrs : isVal(i, "false") THEN "bad"
              ELSE IF hrs # {} /\ \A i \in hrs : isVal(i, "true") THEN "good"
              ELSE "warn"

\* C2: the longitude normalizeCoords returns lies in [-180, 180) and differs
\* from the input by a multiple of 360.
C2_LonInRange ==
    (call.fn = "normalizeCoords" /\ call.done) =>
        /\ -180 <= call.out.lon /\ call.out.lon < 180
        /\ (call.out.lon - call.in[2]) % 360 = 0

\* C5: readPrefs maps a threshold field whose text is empty or is no finite
\* numeric literal to null, never to 0, and yields a number only for a
\* non-empty finite numeric literal.
C5_EmptyIsNull ==
    (call.fn = "readPrefs" /\ call.done) =>
        \A f \in ThresholdFields :
            IF call.in[f] = "5" THEN call.out[f] = Num(5) ELSE call.out[f] = Null

\* C9: every entry of the series fallbackFlipSeries returns is null or a
\* number p with 0 <= p <= 1.
C9_FlipInUnitInterval ==
    (call.fn = "fallbackFlipSeries" /\ call.done) =>
        \A i \in DOMAIN call.out :
            \/ call.out[i] = Null
            \/ /\ call.out[i].t = "num"
               /\ 0 <= call.out[i].n /\ call.out[i].n <= call.out[i].d

\* C10: fallbackFlipSeries returns a series of the length of its input, whose
\* entry i is null exactly when value i is no finite number or neither bound
\* is a finite number; a non-finite value at another index changes nothing.
C10_NullExactly ==
    (call.fn = "fallbackFlipSeries" /\ call.done) =>
        LET values == call.in[1]
            th     == call.in[2]
        IN  /\ Len(call.out) = Len(values)
            /\ \A i \in 1..Len(values) :
                 (call.out[i] = Null) <=>
                     (~isNum(values[i]) \/ (~isNum(th.min) /\ ~isNum(th.max)))

\* C10 witness: a non-finite value between two finite ones, one bound defined:
\* unknown at that index only
C10_Witness ==
    /\ call.fn = "fallbackFlipSeries" /\ call.done
    /\ Len(call.in[1]) = 3
    /\ isNum(call.in[1][1]) /\ ~isNum(call.in[1][2]) /\ isNum(call.in[1][3])
    /\ ~isNum(call.in[2].min) /\ isNum(call.in[2].max)
    /\ call.out[1] # Null /\ call.out[2] = Null /\ call.out[3] # Null

(***************************************************************************)
(* Claims about the page.                                                  *)
(***************************************************************************)
InValidRange(l) ==
    \/ l.lat = NoCoord /\ l.lon = NoCoord
    \/ /\ -90 <= l.lat /\ l.lat <= 90
       /\ -180 <= l.lon /\ l.lon < 180

\* C3: the stored location a plan request reads its lat/lon from (selected in
\* section B, current in section A) is unset or has its latitude in [-90, 90]
\* and its longitude in [-180, 180): no click handler stores raw coordinates.
C3_StoredLocationInRange == InValidRange(selected) /\ InValidRange(current)

\* C4: a click on Run while no location is picked, or while the start or the
\* end time is empty, sends no request; an error is shown instead and the
\* last result is unchanged.
C4_RunValidatesInputs ==
    [][(RunB /\ (\/ selected.lat = NoCoord \/ selected.lon = NoCoord
                 \/ form.startLocal = "" \/ form.endLocal = ""))
        => /\ inflight' = inflight
           /\ dom'.errorShown
           /\ lastResult' = lastResult]_vars

\* the text x is on the page: in the error panel or in the summary slot
Shows(d, x) == (d.errorShown /\ \E k \in DOMAIN d.errorText : d.errorText[k] = x)
                 \/ d.planResult.s = x

\* C6: when /api/plan_trip answers {ok:false, error:"X"}, the Run action shows
\* "X" and leaves the condition panel and the suggestion panel hidden.
C6_FailureShownPanelsHidden ==
    [][\A r \in PlanResponses :
          (r.net /\ ~r.ok /\ r.error = "X" /\ PlanBGot(r))
            => /\ Shows(dom', "X")
               /\ ~dom'.condPanel
               /\ ~dom'.suggestPanel]_vars

\* what C7 asks of the step that handles the answer
NoDataHandled ==
    /\ Shows(dom', "Y")
    /\ lastResult' = NoResult
    /\ ~dom'.condPanel /\ ~dom'.suggestPanel /\ ~dom'.probPanel
    /\ CopiesIn(Req("B.trips"), inflight') <= CopiesIn(Req("B.trips"), inflight)

C8_OneResultShown ==
    /\ dom.planResult.k = "summaryB" => dom.planResult.r = lastResult
    /\ dom.condPanel    => dom.condRows.r = lastResult
    /\ dom.suggestPanel => dom.suggest.r = lastResult
    /\ dom.probPanel    => dom.probRows.r = lastResult
    /\ dom.modal        => /\ dom.modalBody.r = lastResult
                           /\ csvExport = [trip_id |-> dom.modalBody.r.id,
                                           factor |-> dom.modalBody.factor]

(***************************************************************************)
(* Claims about the saved-trips list.                                      *)
(***************************************************************************)
\* GET /api/trips requests of section B in flight
TripsFetchesB(q) == CopiesIn(Req("B.trips"), q)

\* C11: a Run whose answer is a success (ok true, no_data_for_window not set)
\* is followed by a GET /api/trips refresh: the request leaves in the step
\* that renders the answer; a Run that ends in an error, an ok:false or a
\* no-data outcome, or that is refused for a missing location, sends none.
C11_RefreshAfterSuccessOnly ==
    [][/\ \A r \in PlanResponses :
             PlanBGot(r) =>
                 IF r.net /\ r.ok /\ ~r.no_data
                 THEN TripsFetchesB(inflight') = TripsFetchesB(inflight) + 1
                 ELSE TripsFetchesB(inflight') = TripsFetchesB(inflight)
       /\ RunB => TripsFetchesB(inflight') = TripsFetchesB(inflight)]_vars

\* C11 witness: no trips list was rendered yet, so the result in the slot came
\* from a Run, and its refresh is in flight beside the one of the page load
C11_Witness ==
    /\ lastResult # NoResult
    /\ dom.planResult.k = "summaryB"
    /\ dom.tripsList.by = "none"
    /\ TripsFetchesB(inflight) = 2

Answered == \E t \in BagToSet(inflight) : CopiesIn(t, inflight') < CopiesIn(t, inflight)
\* the step sends a request
SentNew == \E t \in BagToSet(inflight') : CopiesIn(t, inflight') > CopiesIn(t, inflight)

\* the page elements and variables that show the answer of a request
DependentUI(d, res, sel) ==
    <<res, sel.name, d.planResult, d.condPanel, d.condRows, d.suggestPanel, d.suggest,
      d.probPanel, d.probRows, d.tripsList, d.placeInfo>>

\* a step that only sends a request (the click itself) leaves alone what shows
\* the answer
UpdatedAfterAnswer ==
    (SentNew /\ ~Answered)
        => DependentUI(dom', lastResult', selected') = DependentUI(dom, lastResult, selected)

\* C13 as stated: each user action (map click, Run, Delete, View) issues at
\* most one request, so the step that handles an answer sends no further
\* request, and the UI that shows the answer is updated only after it arrived.
C13_OneRequestPerAction ==
    [][~(Answered /\ SentNew) /\ UpdatedAfterAnswer]_vars

\* C13 amended: each user action issues its requests one at a time: the click
\* sends at most one request, the handling of an answer sends at most one
\* follow-up request, and the UI that shows an answer is updated only after
\* it arrived.
C13_OneRequestAtATime ==
    [][/\ BagCardinality(inflight') <= BagCardinality(inflight) + 1
       /\ Answered => BagCardinality(inflight') <= BagCardinality(inflight)
       /\ UpdatedAfterAnswer]_vars

\* C13 witness: a Run was answered with a result, which is rendered, and the
\* follow-up request for the trips list is in flight
C13_Witness ==
    /\ dom.planResult.k = "summaryB" /\ dom.planResult.r = lastResult
    /\ Pending("B.plan") = {}
    /\ dom.tripsList.k = "No trips yet."
    /\ TripsFetchesB(inflight) = 1

(***************************************************************************)
(* Claims about the map click.                                             *)
(***************************************************************************)
\* the only reverse-geocode request in flight: the one of the latest click
LatestGeoB ==
    /\ Cardinality(Pending("B.geo")) = 1
    /\ \A t \in Pending("B.geo") : CopiesIn(t, inflight) = 1

\* C14: on a map click, a failed reverse-geocode request leaves the stored
\* name of the newly clicked location "Unknown", never the name of a place
\* clicked before; the click still ends with the new coordinates stored and
\* no retry request is sent.
C14_FailedGeocodeIsUnknown ==
    [][\A r \in GeoResponses :
          (~(r.net /\ r.ok) /\ LatestGeoB /\ GeoBGot(r))
            => /\ selected'.name = "Unknown"
               /\ <<selected'.lat, selected'.lon>> \in ClickPoints
               /\ BagCardinality(inflight') < BagCardinality(inflight)]_vars

(***************************************************************************)
(* Claims about overlapping actions.                                       *)
(***************************************************************************)
\* requests in flight that will produce a result: Run and View
ResultFetches(q) == {t \in BagToSet(q) : t.h \in {"B.plan", "B.trip"}}

\* the slot and the four panels Run and View render hold the result res
HoldsResult(d, slot, res) ==
    /\ slot = res
    /\ d.planResult = [k |-> "summaryB", r |-> res, s |-> ""]
    /\ d.condPanel /\ d.condRows.r = res
    /\ d.suggestPanel /\ d.suggest.r = res
    /\ d.probPanel /\ d.probRows.r = res

C16_FallbackOnlyWhenOmitted ==
    (call.fn = "openFactorModal" /\ call.done) =>
        LET in == call.in
            out == call.out
            omitted == \A i \in DOMAIN in.hourly_flip : ~isNum(in.hourly_flip[i])
        IN  /\ (out.by = "fallback") <=> omitted
            /\ ~omitted => out.cells = [i \in DOMAIN in.hourly_flip |->
                                           flipCellText(in.hourly_flip[i])]
            /\ (omitted /\ out.panel = Dash)
                  => \A i \in DOMAIN out.cells : out.cells[i] = Dash

\* the threshold bounds of a factor in prefs.thresholds
OwnBounds(key) ==
    CASE key = "temp"        -> {"temp_min", "temp_max"}
      [] key = "humidity"    -> {"humidity_min", "humidity_max"}
      [] key = "wind"        -> {"wind_min", "wind_max"}
      [] key = "precip_amt"  -> {"precip_amt_max"}
      [] key = "precip_prob" -> {"precip_prob_max"}

\* C17: for each of the five factors, when the backend supplies no flip
\* probabilities for it and the preferences define at least one of its bounds,
\* every hour with a finite value gets a numeric flip probability.
C17_OwnBoundsGiven ==
    (call.fn = "openFactorModal" /\ call.done) =>
        LET in == call.in IN
        ((\A i \in DOMAIN in.hourly_flip : ~isNum(in.hourly_flip[i]))
           /\ (\E n \in OwnBounds(in.key) : isNum(in.thresholds[n])))
          => /\ Len(call.out.series) = Len(in.values)
             /\ \A i \in DOMAIN in.values :
                   isNum(in.values[i]) => isNum(call.out.series[i])

\* C18 as stated: there is a finite pct_of_normal for which both the +0.1 and
\* the -0.1 adjustment are applied to one hour's probability.
C18_BothNudgesCanFire ==
    (call.fn = "nudged" /\ call.done) =>
        \E pct \in NudgePcts :
            /\ isNum(pct) /\ tweakUp(pct) /\ tweakDown(pct)
            /\ nudged(call.in[1], pct) =
                  clamp(JsSub(clamp(JsAdd(call.in[1], Rat(1, 10)), Num(0), Num(1)),
                              Rat(1, 10)), Num(0), Num(1))

\* C18 amended: for no pct_of_normal are both adjustments applied: an hour's
\* probability is left alone, raised by 0.1 or lowered by 0.1, then clamped.
C18_NudgesExclusive ==
    (call.fn = "nudged" /\ call.done) =>
        LET p == call.in[1]
            pct == call.in[2]
        IN  /\ ~(tweakUp(pct) /\ tweakDown(pct))
            /\ call.out = IF tweakUp(pct) THEN clamp(JsAdd(p, Rat(1, 10)), Num(0), Num(1))
                          ELSE IF tweakDown(pct)
                          THEN clamp(JsSub(p, Rat(1, 10)), Num(0), Num(1))
                          ELSE p

\* C18 witness: at 100 percent of normal only the downward nudge is applied
C18_Witness ==
    /\ call.fn = "nudged" /\ call.done
    /\ call.in = <<Rat(1, 2), Num(100)>>
    /\ call.out # Rat(1, 2)
    /\ JsLe(call.out, Rat(1, 2))

(***************************************************************************)
(* Claims about overlapping map clicks.                                    *)
(***************************************************************************)
\* C19: when a second map click happens while the first click's requests are
\* in flight, then once all requests have completed the stored location is
\* coherent: its coordinates and its name belong to one click, the most
\* recent one, whose marker is the marker on the map.
C19_CoherentAfterOverlap ==
    (Pending("B.geo") = {} /\ marker.set) =>
        /\ selected.name = PlaceName(selected.lat, selected.lon)
        /\ <<marker.lat, marker.lon>> = <<selected.lat, selected.lon>>
        /\ marker.popup = <<selected.name, selected.lat, selected.lon>>

====
